---- MODULE Spec2Model ----
(***************************************************************************)
(* Model of v2ray_mining.py: the URI matcher, the cleaner, the vmess       *)
(* payload transformer, the HTML surface extractor with its validation,    *)
(* the concurrent scrape and the entry point that persists the result.     *)
(*                                                                         *)
(* A Python str is modelled as a sequence of one-character strings. An     *)
(* operator that needs an intermediate result more than once takes it as   *)
(* a parameter of a helper operator (X(a) == XWith(a, F(a))), which is how *)
(* a local variable of the Python code is written here.                    *)
(***************************************************************************)
EXTENDS Integers, Sequences, FiniteSets, TLC

VARIABLES
    pc,             \* where the part of the program under check stands
    clean_in,       \* clean_uri: the argument
    clean_out,      \* clean_uri: <<>>, then <<clean(x)>>, then <<clean(x), clean(clean(x))>>
    text,           \* URI_RE.findall: the text scanned
    matches,        \* URI_RE.findall: the list of spans, once pc = "scanned"
    vm_uri,         \* transform_vmess: the argument
    vm_res,         \* transform_vmess: its outcome, once pc = "returned"
    parser_none,    \* parse_uri: the URIs it returns no result for
    parser_raise,   \* parse_uri: the URIs it raises on
    page,           \* extract_from_server: the elements of the page fetched
    fetch_ok,       \* extract_from_server: whether the fetch went through
    surface_found,  \* extract_configs_from_html: what each scanned item appended to `found`
    page_out,       \* extract_from_server: the list returned
    page_results,     \* scrape: the calls of fetch_page, in the order submitted
    all_server_links, \* scrape: the server links of the index pages, without duplicates
    server_results,   \* scrape: the calls of fetch_server, in the order submitted
    configs,          \* __main__: what scrape returned
    valid_uris,       \* __main__: the URIs the parsing loop kept
    output_file,      \* configs.txt: whether it was written, and its text
    exit_status,      \* the exit status, once pc = "exit"
    failure           \* the step that raised and ended the run, "none" if none did

cleanVars == <<clean_in, clean_out>>
matchVars == <<text, matches>>
vmessVars == <<vm_uri, vm_res>>
parserVars == <<parser_none, parser_raise>>
pageVars == <<page, fetch_ok, surface_found, page_out>>
mainVars == <<page_results, all_server_links, server_results, configs, valid_uris,
              output_file, exit_status, failure>>
vars == <<pc, cleanVars, matchVars, vmessVars, parserVars, pageVars, mainVars>>

\* ------------------------------------------------------------------ strings

Min(S) == CHOOSE m \in S : \A n \in S : m <= n

\* str.strip() with no argument: the whitespace of the modelled alphabet
Whitespace == {" ", "\t", "\n", "\r", "\f"}

\* the characters of clean_uri's second strip: ' \t\n\r"\''
QuoteStripChars == {" ", "\t", "\n", "\r", "\"", "'"}

\* the characters of clean_uri's rstrip: '.,;:!?)"\']'
TrailChars == {".", ",", ";", ":", "!", "?", ")", "\"", "'", "]"}

\* s[i:] in Python terms, i counted from 1 here
Drop(s, i) == SubSeq(s, i, Len(s))

\* str.lstrip(chars)
LStrip(s, chars) ==
    Drop(s, CHOOSE i \in 1..(Len(s) + 1) :
                /\ i = Len(s) + 1 \/ s[i] \notin chars
                /\ \A k \in 1..(i - 1) : s[k] \in chars)

\* str.rstrip(chars)
RStrip(s, chars) ==
    SubSeq(s, 1, CHOOSE i \in 0..Len(s) :
                     /\ i = 0 \/ s[i] \notin chars
                     /\ \A k \in (i + 1)..Len(s) : s[k] \in chars)

\* str.strip(chars)
Strip(s, chars) == RStrip(LStrip(s, chars), chars)

StartsWith(s, p) == Len(s) >= Len(p) /\ SubSeq(s, 1, Len(p)) = p
EndsWith(s, p) == Len(s) >= Len(p) /\ SubSeq(s, Len(s) - Len(p) + 1, Len(s)) = p

\* p occurs in s at index i
OccursAt(s, p, i) == \A k \in 1..Len(p) : s[i + k - 1] = p[k]

\* str.find(p) counted from 1; 0 when p does not occur
Find(s, p) ==
    IF \E i \in 1..(Len(s) - Len(p) + 1) : OccursAt(s, p, i)
    THEN CHOOSE i \in 1..(Len(s) - Len(p) + 1) :
             OccursAt(s, p, i) /\ \A j \in 1..(i - 1) : ~OccursAt(s, p, j)
    ELSE 0

\* p in s
Contains(s, p) == \E i \in 1..(Len(s) - Len(p) + 1) : OccursAt(s, p, i)

\* ---------------------------------------------------------------- clean_uri

\* the loop of clean_uri: while uri.startswith('(') and uri.endswith(')')
RECURSIVE UnwrapParens(_)
UnwrapParens(uri) ==
    IF StartsWith(uri, <<"(">>) /\ EndsWith(uri, <<")">>)
    THEN UnwrapParens(Strip(SubSeq(uri, 2, Len(uri) - 1), Whitespace))
    ELSE uri

clean_uri(uri) ==
    IF uri = <<>> THEN uri
    ELSE RStrip(UnwrapParens(Strip(Strip(uri, Whitespace), QuoteStripChars)), TrailChars)

\* -------------------------------------------------------------------- URI_RE

UpperLetters == <<"A", "B", "C", "D", "E", "F", "G", "H", "I", "J", "K", "L", "M",
                  "N", "O", "P", "Q", "R", "S", "T", "U", "V", "W", "X", "Y", "Z">>
LowerLetters == <<"a", "b", "c", "d", "e", "f", "g", "h", "i", "j", "k", "l", "m",
                  "n", "o", "p", "q", "r", "s", "t", "u", "v", "w", "x", "y", "z">>

\* the lower-case letter of every upper-case one
LowerOf == [c \in {UpperLetters[k] : k \in 1..26} |->
               LowerLetters[CHOOSE k \in 1..26 : UpperLetters[k] = c]]

LowerChar(c) == IF c \in DOMAIN LowerOf THEN LowerOf[c] ELSE c

\* str.lower()
Lower(s) == [k \in 1..Len(s) |-> LowerChar(s[k])]

\* the alternation (?:vless|vmess|trojan|ss) followed by ://, in its order
SchemePrefixes ==
    << <<"v", "l", "e", "s", "s", ":", "/", "/">>,
       <<"v", "m", "e", "s", "s", ":", "/", "/">>,
       <<"t", "r", "o", "j", "a", "n", ":", "/", "/">>,
       <<"s", "s", ":", "/", "/">> >>

\* the characters the body class [^\s'"<>()[\]{}] excludes
BodyBreakChars == Whitespace \cup {"'", "\"", "<", ">", "(", ")", "[", "]", "{", "}"}

\* the characters the fragment class [^\n\r] excludes
FragBreakChars == {"\n", "\r"}

\* the {0,200} of the fragment group
FRAG_MAX == 200

\* the first index >= i of s holding a character of chars, Len(s) + 1 if none
RunEnd(s, i, chars) ==
    CHOOSE j \in i..(Len(s) + 1) :
        /\ j = Len(s) + 1 \/ s[j] \in chars
        /\ \A k \in i..(j - 1) : s[k] \notin chars

\* the scheme alternative k matches s at i under re.IGNORECASE
SchemeMatches(s, i, k) ==
    /\ i + Len(SchemePrefixes[k]) - 1 <= Len(s)
    /\ \A j \in 1..Len(SchemePrefixes[k]) : LowerChar(s[i + j - 1]) = SchemePrefixes[k][j]

\* the first alternative that matches s at i, 0 if none
SchemeAt(s, i) ==
    IF \E k \in 1..Len(SchemePrefixes) : SchemeMatches(s, i, k)
    THEN Min({k \in 1..Len(SchemePrefixes) : SchemeMatches(s, i, k)})
    ELSE 0

\* the optional group (?:#[^\n\r]{0,200})? tried at j: the index after it
FragmentEnd(s, j) ==
    IF j <= Len(s) /\ s[j] = "#"
    THEN Min({RunEnd(s, j + 1, FragBreakChars), j + 1 + FRAG_MAX})
    ELSE j

\* the body [^\s'"<>()[\]{}]+ from b, ending before e: it needs one character
AfterBody(s, b, e) == IF e = b THEN 0 ELSE FragmentEnd(s, e)

\* the rest of the pattern after scheme alternative k matched at i
AfterScheme(s, i, k) ==
    IF k = 0 THEN 0
    ELSE AfterBody(s, i + Len(SchemePrefixes[k]),
                   RunEnd(s, i + Len(SchemePrefixes[k]), BodyBreakChars))

\* URI_RE matched at i: the index after the span, 0 when it does not match.
\* The body is greedy, and the group after it is optional, so the first
\* attempt (the longest body) succeeds and the matcher never backtracks.
MatchEnd(s, i) == AfterScheme(s, i, SchemeAt(s, i))

\* every <<start, index after the end>> at which URI_RE matches s
AllMatches(s) == {m \in {<<j, MatchEnd(s, j)>> : j \in 1..Len(s)} : m[2] # 0}

\* the match with the least start among ms
Leftmost(ms) == CHOOSE m \in ms : \A n \in ms : m[1] <= n[1]

\* the scan of findall: the leftmost match from i on, then on from its end
RECURSIVE SpansFrom(_, _, _)
SpanAndRest(s, ms, m) == <<SubSeq(s, m[1], m[2] - 1)>> \o SpansFrom(s, ms, m[2])
SpansFrom(s, ms, i) ==
    IF \A m \in ms : m[1] < i THEN <<>>
    ELSE SpanAndRest(s, ms, Leftmost({m \in ms : m[1] >= i}))

\* URI_RE.findall(s): the non-overlapping spans, left to right.
\* URI_RE.search(s) finds the first of them, if any.
URI_RE_findall(s) == SpansFrom(s, AllMatches(s), 1)

\* ------------------------------------------------- the vmess payload codec

\* base64.b64decode(payload).decode('utf-8', errors='replace') followed by
\* json.loads, tabulated on the payloads of the catalogue: each row is a padded
\* payload and the JSON value Python decodes it to. A regional-indicator symbol
\* (one code point of U+1F1E6..U+1F1FF) is written "RI_D", "RI_E", "RI_F", "RI_R".

DecodeTable ==
    << [payload |-> <<"e", "y", "J", "w", "c", "y", "I", "6", "I", "k", "R", "F", "I", "n", "0", "=">>,
        value |-> [t |-> "obj", f |-> [ps |-> [t |-> "str", s |-> <<"D", "E">>]]]],
       [payload |-> <<"e", "y", "J", "w", "c", "y", "I", "6", "I", "v", "C", "f", "h", "6", "n", "w", "n", "4", "e", "q", "I", "E", "Z", "y", "Y", "W", "5", "r", "Z", "n", "V", "y", "d", "C", "I", "s", "I", "n", "Y", "i", "O", "i", "I", "y", "I", "i", "w", "i", "Y", "W", "R", "k", "I", "j", "o", "i", "M", "S", "4", "y", "L", "j", "M", "u", "N", "C", "J", "9">>,
        value |-> [t |-> "obj", f |-> [ps |-> [t |-> "str", s |-> <<"RI_D", "RI_E", " ", "F", "r", "a", "n", "k", "f", "u", "r", "t">>], v |-> [t |-> "str", s |-> <<"2">>], add |-> [t |-> "str", s |-> <<"1", ".", "2", ".", "3", ".", "4">>]]]],
       [payload |-> <<"e", "y", "J", "w", "c", "y", "I", "6", "I", "v", "C", "f", "h", "6", "n", "w", "n", "4", "e", "q", "I", "i", "w", "i", "d", "i", "I", "6", "I", "j", "I", "i", "L", "C", "J", "h", "Z", "G", "Q", "i", "O", "i", "I", "x", "L", "j", "I", "u", "M", "y", "4", "0", "I", "n", "0", "=">>,
        value |-> [t |-> "obj", f |-> [ps |-> [t |-> "str", s |-> <<"RI_D", "RI_E">>], v |-> [t |-> "str", s |-> <<"2">>], add |-> [t |-> "str", s |-> <<"1", ".", "2", ".", "3", ".", "4">>]]]],
       [payload |-> <<"e", "y", "J", "2", "I", "j", "o", "g", "I", "j", "I", "i", "L", "C", "A", "i", "c", "H", "M", "i", "O", "i", "A", "i", "I", "C", "B", "G", "c", "m", "F", "u", "a", "2", "Z", "1", "c", "n", "Q", "g", "I", "C", "J", "9">>,
        value |-> [t |-> "obj", f |-> [v |-> [t |-> "str", s |-> <<"2">>], ps |-> [t |-> "str", s |-> <<" ", " ", "F", "r", "a", "n", "k", "f", "u", "r", "t", " ", " ">>]]]],
       [payload |-> <<"e", "y", "J", "2", "I", "j", "o", "i", "M", "i", "I", "s", "I", "n", "B", "z", "I", "j", "o", "i", "R", "n", "J", "h", "b", "i", "J", "9">>,
        value |-> [t |-> "obj", f |-> [v |-> [t |-> "str", s |-> <<"2">>], ps |-> [t |-> "str", s |-> <<"F", "r", "a", "n">>]]]],
       [payload |-> <<"e", "y", "J", "w", "c", "y", "I", "6", "I", "k", "Z", "y", "Y", "W", "5", "r", "Z", "n", "V", "y", "d", "C", "J", "9">>,
        value |-> [t |-> "obj", f |-> [ps |-> [t |-> "str", s |-> <<"F", "r", "a", "n", "k", "f", "u", "r", "t">>]]]],
       [payload |-> <<"e", "y", "J", "w", "c", "y", "I", "6", "I", "k", "Z", "y", "Y", "W", "4", "i", "f", "Q", "=", "=">>,
        value |-> [t |-> "obj", f |-> [ps |-> [t |-> "str", s |-> <<"F", "r", "a", "n">>]]]],
       [payload |-> <<"e", "y", "J", "w", "c", "y", "I", "6", "I", "i", "B", "4", "I", "C", "J", "9">>,
        value |-> [t |-> "obj", f |-> [ps |-> [t |-> "str", s |-> <<" ", "x", " ">>]]]],
       [payload |-> <<"e", "y", "J", "w", "c", "y", "I", "6", "I", "n", "g", "i", "f", "Q", "=", "=">>,
        value |-> [t |-> "obj", f |-> [ps |-> [t |-> "str", s |-> <<"x">>]]]],
       [payload |-> <<"e", "y", "J", "w", "c", "y", "I", "6", "I", "i", "A", "g", "I", "n", "0", "=">>,
        value |-> [t |-> "obj", f |-> [ps |-> [t |-> "str", s |-> <<" ", " ">>]]]],
       [payload |-> <<"e", "y", "J", "w", "c", "y", "I", "6", "I", "i", "J", "9">>,
        value |-> [t |-> "obj", f |-> [ps |-> [t |-> "str", s |-> <<>>]]]],
       [payload |-> <<"e", "y", "J", "2", "I", "j", "o", "i", "M", "i", "J", "9">>,
        value |-> [t |-> "obj", f |-> [v |-> [t |-> "str", s |-> <<"2">>]]]],
       [payload |-> <<"e", "y", "J", "2", "I", "j", "o", "i", "M", "i", "I", "s", "I", "n", "B", "z", "I", "j", "o", "i", "I", "n", "0", "=">>,
        value |-> [t |-> "obj", f |-> [v |-> [t |-> "str", s |-> <<"2">>], ps |-> [t |-> "str", s |-> <<>>]]]],
       [payload |-> <<"e", "y", "J", "w", "c", "y", "I", "6", "I", "m", "H", "w", "n", "4", "e", "p", "I", "P", "C", "f", "h", "6", "r", "w", "n", "4", "e", "r", "8", "J", "+", "H", "t", "2", "I", "i", "f", "Q", "=", "=">>,
        value |-> [t |-> "obj", f |-> [ps |-> [t |-> "str", s |-> <<"a", "RI_D", " ", "RI_E", "RI_F", "RI_R", "b">>]]]],
       [payload |-> <<"e", "y", "J", "w", "c", "y", "I", "6", "I", "v", "C", "f", "h", "6", "r", "w", "n", "4", "e", "r", "I", "n", "0", "=">>,
        value |-> [t |-> "obj", f |-> [ps |-> [t |-> "str", s |-> <<"RI_E", "RI_F">>]]]],
       [payload |-> <<"e", "y", "J", "w", "c", "y", "I", "6", "I", "v", "C", "f", "h", "6", "k", "g", "e", "C", "J", "9">>,
        value |-> [t |-> "obj", f |-> [ps |-> [t |-> "str", s |-> <<"RI_D", " ", "x">>]]]],
       [payload |-> <<"e", "y", "J", "w", "c", "y", "I", "6", "N", "X", "0", "=">>,
        value |-> [t |-> "obj", f |-> [ps |-> [t |-> "num", n |-> 5]]]],
       [payload |-> <<"e", "y", "J", "w", "c", "y", "I", "6", "b", "n", "V", "s", "b", "H", "0", "=">>,
        value |-> [t |-> "obj", f |-> [ps |-> [t |-> "null"]]]],
       [payload |-> <<"e", "y", "J", "w", "c", "y", "I", "6", "W", "z", "F", "d", "f", "Q", "=", "=">>,
        value |-> [t |-> "obj", f |-> [ps |-> [t |-> "list", items |-> <<[t |-> "num", n |-> 1]>>]]]],
       [payload |-> <<"e", "y", "J", "w", "c", "y", "I", "6", "M", "H", "0", "=">>,
        value |-> [t |-> "obj", f |-> [ps |-> [t |-> "num", n |-> 0]]]],
       [payload |-> <<"W", "z", "F", "d">>,
        value |-> [t |-> "list", items |-> <<[t |-> "num", n |-> 1]>>]],
       [payload |-> <<"N", "Q", "=", "=">>,
        value |-> [t |-> "num", n |-> 5]],
       [payload |-> <<"I", "n", "M", "i">>,
        value |-> [t |-> "str", s |-> <<"s">>]],
       [payload |-> <<"b", "n", "V", "s", "b", "A", "=", "=">>,
        value |-> [t |-> "null"]] >>

\* json.dumps(data, ensure_ascii=False, separators=(',', ':')) followed by
\* base64.b64encode, tabulated on the values transform_vmess produces from the
\* catalogue: each row is a JSON value and the payload Python encodes it to.

EncodeTable ==
    << [value |-> [t |-> "obj", f |-> [ps |-> [t |-> "str", s |-> <<"D", "E">>]]],
        payload |-> <<"e", "y", "J", "w", "c", "y", "I", "6", "I", "k", "R", "F", "I", "n", "0", "=">>],
       [value |-> [t |-> "obj", f |-> [ps |-> [t |-> "str", s |-> <<"RI_D", "RI_E">>], v |-> [t |-> "str", s |-> <<"2">>], add |-> [t |-> "str", s |-> <<"1", ".", "2", ".", "3", ".", "4">>]]],
        payload |-> <<"e", "y", "J", "w", "c", "y", "I", "6", "I", "v", "C", "f", "h", "6", "n", "w", "n", "4", "e", "q", "I", "i", "w", "i", "d", "i", "I", "6", "I", "j", "I", "i", "L", "C", "J", "h", "Z", "G", "Q", "i", "O", "i", "I", "x", "L", "j", "I", "u", "M", "y", "4", "0", "I", "n", "0", "=">>],
       [value |-> [t |-> "obj", f |-> [v |-> [t |-> "str", s |-> <<"2">>], ps |-> [t |-> "str", s |-> <<"F", "r", "a", "n">>]]],
        payload |-> <<"e", "y", "J", "2", "I", "j", "o", "i", "M", "i", "I", "s", "I", "n", "B", "z", "I", "j", "o", "i", "R", "n", "J", "h", "b", "i", "J", "9">>],
       [value |-> [t |-> "obj", f |-> [ps |-> [t |-> "str", s |-> <<"F", "r", "a", "n">>]]],
        payload |-> <<"e", "y", "J", "w", "c", "y", "I", "6", "I", "k", "Z", "y", "Y", "W", "4", "i", "f", "Q", "=", "=">>],
       [value |-> [t |-> "obj", f |-> [ps |-> [t |-> "str", s |-> <<"x">>]]],
        payload |-> <<"e", "y", "J", "w", "c", "y", "I", "6", "I", "n", "g", "i", "f", "Q", "=", "=">>],
       [value |-> [t |-> "obj", f |-> [ps |-> [t |-> "str", s |-> <<>>]]],
        payload |-> <<"e", "y", "J", "w", "c", "y", "I", "6", "I", "i", "J", "9">>],
       [value |-> [t |-> "obj", f |-> [v |-> [t |-> "str", s |-> <<"2">>], ps |-> [t |-> "str", s |-> <<>>]]],
        payload |-> <<"e", "y", "J", "2", "I", "j", "o", "i", "M", "i", "I", "s", "I", "n", "B", "z", "I", "j", "o", "i", "I", "n", "0", "=">>],
       [value |-> [t |-> "obj", f |-> [ps |-> [t |-> "str", s |-> <<"RI_E", "RI_F">>]]],
        payload |-> <<"e", "y", "J", "w", "c", "y", "I", "6", "I", "v", "C", "f", "h", "6", "r", "w", "n", "4", "e", "r", "I", "n", "0", "=">>],
       [value |-> [t |-> "obj", f |-> [ps |-> [t |-> "str", s |-> <<"RI_D", " ", "x">>]]],
        payload |-> <<"e", "y", "J", "w", "c", "y", "I", "6", "I", "v", "C", "f", "h", "6", "k", "g", "e", "C", "J", "9">>] >>

\* payloads that are no base64 of a JSON text: base64 with characters outside
\* the alphabet, the base64 of `{ps`, the base64 of bytes that are no UTF-8

InvalidPayloads ==
    { <<"!", "!", "!", "n", "o", "t", "b", "a", "s", "e", "6", "4", "!", "!", "!">>,
      <<"e", "3", "B", "z">>,
      <<"a", "b", "c">> }

\* the payloads of the vmess URIs the model enumerates, as Python encodes them

CataloguePayloads ==
    { <<"e", "y", "J", "w", "c", "y", "I", "6", "I", "k", "R", "F", "I", "n", "0", "=">>,
      <<"e", "y", "J", "w", "c", "y", "I", "6", "I", "v", "C", "f", "h", "6", "n", "w", "n", "4", "e", "q", "I", "E", "Z", "y", "Y", "W", "5", "r", "Z", "n", "V", "y", "d", "C", "I", "s", "I", "n", "Y", "i", "O", "i", "I", "y", "I", "i", "w", "i", "Y", "W", "R", "k", "I", "j", "o", "i", "M", "S", "4", "y", "L", "j", "M", "u", "N", "C", "J", "9">>,
      <<"e", "y", "J", "2", "I", "j", "o", "g", "I", "j", "I", "i", "L", "C", "A", "i", "c", "H", "M", "i", "O", "i", "A", "i", "I", "C", "B", "G", "c", "m", "F", "u", "a", "2", "Z", "1", "c", "n", "Q", "g", "I", "C", "J", "9">>,
      <<"e", "y", "J", "w", "c", "y", "I", "6", "I", "k", "Z", "y", "Y", "W", "5", "r", "Z", "n", "V", "y", "d", "C", "J", "9">>,
      <<"e", "y", "J", "w", "c", "y", "I", "6", "I", "i", "B", "4", "I", "C", "J", "9">>,
      <<"e", "y", "J", "w", "c", "y", "I", "6", "I", "i", "A", "g", "I", "n", "0", "=">>,
      <<"e", "y", "J", "w", "c", "y", "I", "6", "I", "i", "J", "9">>,
      <<"e", "y", "J", "2", "I", "j", "o", "i", "M", "i", "J", "9">>,
      <<"e", "y", "J", "w", "c", "y", "I", "6", "I", "m", "H", "w", "n", "4", "e", "p", "I", "P", "C", "f", "h", "6", "r", "w", "n", "4", "e", "r", "8", "J", "+", "H", "t", "2", "I", "i", "f", "Q", "=", "=">>,
      <<"e", "y", "J", "w", "c", "y", "I", "6", "I", "v", "C", "f", "h", "6", "k", "g", "e", "C", "J", "9">>,
      <<"e", "y", "J", "w", "c", "y", "I", "6", "N", "X", "0", "=">>,
      <<"e", "y", "J", "w", "c", "y", "I", "6", "b", "n", "V", "s", "b", "H", "0", "=">>,
      <<"e", "y", "J", "w", "c", "y", "I", "6", "W", "z", "F", "d", "f", "Q", "=", "=">>,
      <<"e", "y", "J", "w", "c", "y", "I", "6", "M", "H", "0", "=">>,
      <<"W", "z", "F", "d">>,
      <<"N", "Q", "=", "=">>,
      <<"I", "n", "M", "i">>,
      <<"b", "n", "V", "s", "b", "A", "=", "=">> }

\* ---------------------------------------------------------- transform_vmess

\* A JSON value is a record tagged t: "obj" (f: the object, a function from
\* its keys), "str" (s: the text), "num" (n), "list" (items) or "null".
JStr(s) == [t |-> "str", s |-> s]

\* Python's truth value of a decoded JSON value, as `or` and `not` read it
Truthy(v) ==
    CASE v.t = "str" -> v.s # <<>>
      [] v.t = "num" -> v.n # 0
      [] v.t = "list" -> v.items # <<>>
      [] v.t = "obj" -> DOMAIN v.f # {}
      [] OTHER -> FALSE

\* the code points FLAG_RE's class [\U0001F1E6-\U0001F1FF] accepts
RegionalIndicators == {"RI_D", "RI_E", "RI_F", "RI_R"}

\* two consecutive regional-indicator symbols stand at i
FlagAt(s, i) == s[i] \in RegionalIndicators /\ s[i + 1] \in RegionalIndicators

\* FLAG_RE.search(s): the index of the leftmost pair, 0 if there is none
FLAG_RE_search(s) ==
    IF \E i \in 1..(Len(s) - 1) : FlagAt(s, i)
    THEN Min({i \in 1..(Len(s) - 1) : FlagAt(s, i)})
    ELSE 0

\* a call's outcome: the exception it raised ("none" if it returned) and the
\* value it returned
Returned(v) == [exc |-> "none", val |-> v]
Raised(e) == [exc |-> e, val |-> <<>>]

\* s[:4]
First4(s) == SubSeq(s, 1, Min({4, Len(s)}))

\* lines 68-71, m being the index FLAG_RE.search found
FlagOrFirst4(s, m) ==
    IF m # 0 THEN Returned(SubSeq(s, m, m + 1))
    ELSE Returned(First4(Strip(s, Whitespace)))

\* extract_flag_from_ps(ps), ps being any decoded JSON value: re's search
\* raises TypeError on an argument that is no str
extract_flag_from_ps(ps) ==
    IF ~Truthy(ps) THEN Returned(<<>>)
    ELSE IF ps.t # "str" THEN Raised("TypeError")
    ELSE FlagOrFirst4(ps.s, FLAG_RE_search(ps.s))

\* b64decode, decode and json.loads of lines 87-88: ok is FALSE when one of
\* them raises
B64JsonLoads(payload) ==
    IF \E k \in 1..Len(DecodeTable) : DecodeTable[k].payload = payload
    THEN [ok |-> TRUE,
          value |-> DecodeTable[CHOOSE k \in 1..Len(DecodeTable) :
                                    DecodeTable[k].payload = payload].value]
    ELSE [ok |-> FALSE, value |-> [t |-> "null"]]

\* json.dumps, encode and b64encode of lines 98-99
B64JsonDumps(data) ==
    IF \E k \in 1..Len(EncodeTable) : EncodeTable[k].value = data
    THEN [ok |-> TRUE,
          payload |-> EncodeTable[CHOOSE k \in 1..Len(EncodeTable) :
                                      EncodeTable[k].value = data].payload]
    ELSE [ok |-> FALSE, payload |-> <<>>]

\* data['ps'] = ps
SetPs(data, ps) ==
    [t |-> "obj",
     f |-> [k \in DOMAIN data.f \cup {"ps"} |-> IF k = "ps" THEN ps ELSE data.f[k]]]

\* data.get('ps', '') or ''
GetPs(data) ==
    IF "ps" \in DOMAIN data.f /\ Truthy(data.f["ps"]) THEN data.f["ps"] ELSE JStr(<<>>)

\* payload += '=' * (4 - missing_padding)
Pad(payload) ==
    IF Len(payload) % 4 # 0
    THEN payload \o [k \in 1..(4 - (Len(payload) % 4)) |-> "="]
    ELSE payload

SchemeSep == <<":", "/", "/">>
VmessPrefix == <<"v", "m", "e", "s", "s">>

\* lines 93-96: the flag if there is one, else ps.strip()
NewPs(ps, flag) ==
    IF flag # <<>> THEN JStr(flag) ELSE JStr(Strip(ps.s, Whitespace))

\* lines 97-102, out being the outcome of the serialisation
Encoded(uri, out) ==
    IF out.ok THEN Returned(VmessPrefix \o SchemeSep \o out.payload) ELSE Returned(uri)

\* lines 92-102, flag being the outcome of extract_flag_from_ps(ps)
RewriteWithFlag(uri, data, ps, flag) ==
    IF flag.exc # "none" THEN flag
    ELSE Encoded(uri, B64JsonDumps(SetPs(data, NewPs(ps, flag.val))))

\* lines 91-102, ps being data.get('ps', '') or ''
RewriteWithPs(uri, data, ps) == RewriteWithFlag(uri, data, ps, extract_flag_from_ps(ps))

\* lines 91-102, data being the decoded JSON value: data.get raises
\* AttributeError on a value that is no object
RewritePs(uri, data) ==
    IF data.t # "obj" THEN Raised("AttributeError")
    ELSE RewriteWithPs(uri, data, GetPs(data))

\* lines 86-102, dec being the outcome of the decoding
RewriteDecoded(uri, dec) ==
    IF ~dec.ok THEN Returned(uri) ELSE RewritePs(uri, dec.value)

\* uri.split('://', 1)[0], for a uri that holds '://'
PrefixOf(uri) == SubSeq(uri, 1, Find(uri, SchemeSep) - 1)

\* lines 81-85: the stripped payload cut at its first '#' and padded
CutAndPad(stripped, hash) ==
    Pad(IF hash # 0 THEN SubSeq(stripped, 1, hash - 1) ELSE stripped)

\* lines 80-85, for a uri that holds '://'
StrippedPayload(uri) == Strip(Drop(uri, Find(uri, SchemeSep) + 3), Whitespace)
CutPayload(stripped) == CutAndPad(stripped, Find(stripped, <<"#">>))
PayloadOf(uri) == CutPayload(StrippedPayload(uri))

transform_vmess(uri) ==
    IF ~Contains(uri, SchemeSep) THEN Returned(uri)
    ELSE IF Lower(PrefixOf(uri)) # VmessPrefix THEN Returned(uri)
    ELSE RewriteDecoded(uri, B64JsonLoads(PayloadOf(uri)))

\* ------------------------------------------------ extract_configs_from_html

\* A page is a sequence of elements [tag, href, text]: an anchor (tag <<"a">>)
\* with its href attribute and its text, or another element with its text
\* (href <<>>). href and text hold no markup characters, so html.parser
\* reads back from the rendered source exactly these elements.

RECURSIVE Flatten(_)
Flatten(seqs) ==
    IF seqs = <<>> THEN <<>> ELSE Head(seqs) \o Flatten(Tail(seqs))

\* the elements of a sequence, as a set
Range(s) == {s[k] : k \in 1..Len(s)}

\* sep.join(parts)
RECURSIVE Join(_, _)
Join(parts, sep) ==
    IF parts = <<>> THEN <<>>
    ELSE IF Len(parts) = 1 THEN parts[1]
    ELSE parts[1] \o sep \o Join(Tail(parts), sep)

Chars_a_open == <<"<", "a", " ", "h", "r", "e", "f", "=", "\"">>
Chars_a_mid == <<"\"", ">">>
Chars_a_close == <<"<", "/", "a", ">">>

\* the HTML source of an element, and of a page (one element per line)
RenderElement(el) ==
    IF el.tag = <<"a">>
    THEN Chars_a_open \o el.href \o Chars_a_mid \o el.text \o Chars_a_close
    ELSE <<"<">> \o el.tag \o <<">">> \o el.text \o <<"<", "/">> \o el.tag \o <<">">>

Render(pg) == Join([k \in 1..Len(pg) |-> RenderElement(pg[k])], <<"\n">>)

\* resp.text.replace('\r\n', '\n').replace('\r', '\n')
RECURSIVE NormalizeFrom(_, _)
NormalizeFrom(s, i) ==
    IF i > Len(s) THEN <<>>
    ELSE IF s[i] = "\r" /\ i < Len(s) /\ s[i + 1] = "\n" THEN NormalizeFrom(s, i + 1)
    ELSE <<IF s[i] = "\r" THEN "\n" ELSE s[i]>> \o NormalizeFrom(s, i + 1)

NormalizeNewlines(s) == NormalizeFrom(s, 1)

\* the page as BeautifulSoup sees it once the source's line ends are normalized
NormalizePage(pg) ==
    [k \in 1..Len(pg) |->
        [tag |-> pg[k].tag,
         href |-> NormalizeNewlines(pg[k].href),
         text |-> NormalizeNewlines(pg[k].text)]]

\* node.get_text(separator=' ', strip=True) of an element with one text node
GetText(el) == Strip(el.text, Whitespace)

\* soup.get_text(separator=' ', strip=True): the stripped text nodes that are
\* not empty, joined by a space
VisibleText(pg) ==
    Join(SelectSeq([k \in 1..Len(pg) |-> GetText(pg[k])], LAMBDA t : t # <<>>),
         <<" ">>)

VmessScheme == <<"v", "m", "e", "s", "s", ":", "/", "/">>
VlessScheme == <<"v", "l", "e", "s", "s", ":", "/", "/">>

\* transform_vmess(uri) if uri.lower().startswith('vmess://') else uri
TransformIfVmess(uri) ==
    IF StartsWith(Lower(uri), VmessScheme) THEN transform_vmess(uri) ELSE Returned(uri)

\* clean_uri, then transform_vmess if the result starts with vmess://
Candidate(m) == TransformIfVmess(clean_uri(m))

\* a sequence of outcomes as one: the first exception raised, else the values
Collect(outs) ==
    IF \E k \in 1..Len(outs) : outs[k].exc # "none"
    THEN Raised(outs[CHOOSE k \in 1..Len(outs) :
                       /\ outs[k].exc # "none"
                       /\ \A j \in 1..(k - 1) : outs[j].exc = "none"].exc)
    ELSE Returned([k \in 1..Len(outs) |-> outs[k].val])

\* for m in spans: found.append(cleaned and transformed m)
CandidatesOf(spans) == Collect([k \in 1..Len(spans) |-> Candidate(spans[k])])

\* the 200 of text[idx: idx + 200]
LABEL_MAX == 200

\* text[idx: idx + 200], idx at the first '#' of t
LabelSlice(t, idx) == SubSeq(t, idx, Min({Len(t), idx + LABEL_MAX - 1}))

\* cut.split('\n', 1)[0].rstrip('.,;:!?)]"\'')
LabelTrim(cut) == RStrip(SubSeq(cut, 1, RunEnd(cut, 1, {"\n"}) - 1), TrailChars)

\* line 122: the label the anchor text supplies, its '#' included
LabelOf(t) == LabelTrim(LabelSlice(t, Find(t, <<"#">>)))

\* lines 123-127, frag being the label of the anchor text and hash the index
\* of the first '#' of uri (0 if it has none)
MergeFrag(uri, frag, hash) ==
    IF hash # 0
    THEN IF Len(frag) > Len(Drop(uri, hash + 1))
         THEN SubSeq(uri, 1, hash - 1) \o frag
         ELSE uri
    ELSE uri \o frag

\* lines 120-127: the label of the anchor text put on the href's URI
MergeLabel(uri, t) ==
    IF ~Contains(t, <<"#">>) THEN uri
    ELSE MergeFrag(uri, LabelOf(t), Find(uri, <<"#">>))

\* soup.find_all('a', href=True)
Anchors(pg) == SelectSeq(pg, LAMBDA el : el.tag = <<"a">>)

\* the tags of the third surface, in the order the loop takes them
TextTags == << <<"p", "r", "e">>, <<"c", "o", "d", "e">>, <<"p">>, <<"l", "i">>,
               <<"d", "i", "v">>, <<"s", "p", "a", "n">> >>

\* the elements the two nested loops of lines 137-141 scan, in their order
TagNodes(pg) ==
    Flatten([n \in 1..Len(TextTags) |->
                SelectSeq(pg, LAMBDA el : el.tag = TextTags[n] /\ GetText(el) # <<>>)])

\* What extract_configs_from_html scans, in its order: the raw source, every
\* anchor (its stripped href and its text), the text of every text-bearing
\* tag, the visible text of the page.
TextItem(s) == [kind |-> "text", href |-> <<>>, text |-> s]
AnchorItem(el) == [kind |-> "a", href |-> Strip(el.href, Whitespace), text |-> GetText(el)]

ItemsOf(pg, anchors, nodes) ==
    <<TextItem(Render(pg))>>
    \o [k \in 1..Len(anchors) |-> AnchorItem(anchors[k])]
    \o [k \in 1..Len(nodes) |-> TextItem(GetText(nodes[k]))]
    \o <<TextItem(VisibleText(pg))>>

SurfaceItems(pg) == ItemsOf(pg, Anchors(pg), TagNodes(pg))

\* the test `if m_href` of line 116, sp being <<findall(href), findall(text)>>
HrefMatches(item, sp) == item.kind = "a" /\ sp[1] # <<>>

\* the spans an item contributes: for an anchor whose href matches, the first
\* match of the href (URI_RE.search); otherwise every match of the text
ItemSpans(item, sp) == IF HrefMatches(item, sp) THEN <<sp[1][1]>> ELSE sp[2]

\* lines 120-128: an anchor whose href matches appends its URI with the label
\* of its text merged in; cands is the outcome of cleaning and transforming
ItemLabelled(item, sp, cands) ==
    IF cands.exc # "none" THEN cands
    ELSE IF HrefMatches(item, sp) THEN Returned(<<MergeLabel(cands.val[1], item.text)>>)
    ELSE cands

ItemFoundWith(item, sp) == ItemLabelled(item, sp, CandidatesOf(ItemSpans(item, sp)))

\* what the scan of one item appends to `found`
ItemFound(item) ==
    ItemFoundWith(item, [j \in 1..2 |-> URI_RE_findall(IF j = 1 THEN item.href ELSE item.text)])

\* what each item of the page appends to `found`, item by item
FoundOfItems(items) == [k \in 1..Len(items) |-> ItemFound(items[k])]
SurfaceFound(pg) == FoundOfItems(SurfaceItems(pg))

\* the list `found` after the four surfaces, or the exception that ended them
FoundList(parts) ==
    IF Collect(parts).exc # "none" THEN Collect(parts)
    ELSE Returned(Flatten(Collect(parts).val))

\* parse_uri(uri) of the external parser: "config" (a configuration object),
\* "none" (no result) or "raise"
parse_uri(uri) ==
    IF uri \in parser_raise THEN "raise"
    ELSE IF uri \in parser_none THEN "none"
    ELSE "config"

\* the test of line 159
VlessIncomplete(uri) ==
    /\ StartsWith(Lower(uri), VlessScheme)
    /\ (~Contains(uri, <<"@">>) \/ ~Contains(uri, <<":">>))

\* lines 155-166: the validation loop
ValidFound(cands) ==
    SelectSeq(cands, LAMBDA uri :
        /\ uri # <<>>
        /\ ~VlessIncomplete(uri)
        /\ parse_uri(uri) = "config")

\* lines 155-166 on the outcome of the surfaces
Validated(fl) == IF fl.exc # "none" THEN fl ELSE Returned(ValidFound(fl.val))

extract_configs_from_html(pg) == Validated(FoundList(SurfaceFound(pg)))

\* list(dict.fromkeys(xs)): the first occurrence of every element, in order
AppendNew(front, x) == IF x \in Range(front) THEN front ELSE Append(front, x)

RECURSIVE Dedup(_)
Dedup(xs) ==
    IF xs = <<>> THEN <<>>
    ELSE AppendNew(Dedup(SubSeq(xs, 1, Len(xs) - 1)), xs[Len(xs)])

\* lines 173-176, got being the outcome of extract_configs_from_html: any
\* exception gives []
ServerResult(fetched, got) ==
    IF ~fetched THEN <<>>
    ELSE IF got.exc # "none" THEN <<>>
    ELSE Dedup(got.val)

\* extract_from_server: fetched tells whether requests.get and
\* raise_for_status went through
extract_from_server(fetched, pg) ==
    ServerResult(fetched, extract_configs_from_html(NormalizePage(pg)))

\* ------------------------------------------------------------------- scrape

Digits == {"0", "1", "2", "3", "4", "5", "6", "7", "8", "9"}

ServersPrefix == <<"/", "s", "e", "r", "v", "e", "r", "s", "/">>

\* re.match(r'^/servers/\d+/?', href)
IsServerLink(href) ==
    /\ StartsWith(href, ServersPrefix)
    /\ Len(href) > Len(ServersPrefix)
    /\ href[Len(ServersPrefix) + 1] \in Digits

\* lines 185-189: the hrefs of the anchors of an index page that are server links
ServerLinksOf(anchors) ==
    SelectSeq([k \in 1..Len(anchors) |-> anchors[k].href], IsServerLink)

\* fetch_page: fetched tells whether requests.get and raise_for_status went
\* through; any exception gives []
fetch_page(fetched, pg) == IF fetched THEN ServerLinksOf(Anchors(pg)) ELSE <<>>

\* ThreadPoolExecutor(max_workers=10) of the index pages, and
\* ThreadPoolExecutor(max_workers=20) of the server pages
INDEX_WORKERS == 10
SERVER_WORKERS == 20

\* A call submitted to an executor: not yet returned, or returned with its
\* value; `at` is its rank among the calls of the pool in order of return.
Pending == [done |-> FALSE, val |-> <<>>, at |-> 0]

Submitted(n) == [k \in 1..n |-> Pending]

NumDone(tasks) == Cardinality({k \in 1..Len(tasks) : tasks[k].done})

AllDone(tasks) == \A k \in 1..Len(tasks) : tasks[k].done

\* call i has a worker: calls start in the order of submission, and fewer
\* than `workers` calls submitted before it are still running
HasWorker(tasks, i, workers) ==
    Cardinality({j \in 1..(i - 1) : ~tasks[j].done}) < workers

\* call i returns v
Complete(tasks, i, v) ==
    [tasks EXCEPT ![i] = [done |-> TRUE, val |-> v, at |-> NumDone(tasks) + 1]]

\* the values in the order of return, as a loop over as_completed gives them
MapAsCompleted(tasks) ==
    [k \in 1..Len(tasks) |-> tasks[CHOOSE i \in 1..Len(tasks) : tasks[i].at = k].val]

\* list(executor.map(f, xs)): the values in the order of submission
MapResults(tasks) == [k \in 1..Len(tasks) |-> tasks[k].val]

\* lines 199-202: all_server_links
AllServerLinks(page_lists) == Dedup(Flatten(page_lists))

\* lines 214-215: results = [], seen = set()
NoneSeen == [results |-> <<>>, seen |-> {}]

\* the inner loop without its test of `seen`
AddAlways(acc, cfg) ==
    [results |-> Append(acc.results, cfg), seen |-> acc.seen \cup {cfg}]

\* lines 218-220: one pass of the inner loop
AddIfUnseen(acc, cfg) ==
    IF cfg \in acc.seen THEN acc
    ELSE [results |-> Append(acc.results, cfg), seen |-> acc.seen \cup {cfg}]

\* lines 217-220: for cfg in cfgs
RECURSIVE FoldList(_, _)
FoldList(acc, cfgs) ==
    IF cfgs = <<>> THEN acc
    ELSE FoldList(AddIfUnseen(acc, Head(cfgs)), Tail(cfgs))

\* lines 216-220: for cfgs in server_results
RECURSIVE FoldAll(_, _)
FoldAll(acc, lists) ==
    IF lists = <<>> THEN acc
    ELSE FoldAll(FoldList(acc, Head(lists)), Tail(lists))

\* lines 211-222: what scrape returns once every server page has returned
ScrapeResults(tasks) == FoldAll(NoneSeen, MapResults(tasks)).results

\* -------------------------------------------------------------- save_configs

\* "\n".join(configs) + ("\n" if configs else "")
SaveText(uris) == Join(uris, <<"\n">>) \o (IF uris # <<>> THEN <<"\n">> ELSE <<>>)

NoFile == [exists |-> FALSE, text |-> <<>>]

\* the output file after save_configs(uris, OUTPUT_FILE)
save_configs(uris) == [exists |-> TRUE, text |-> SaveText(uris)]

\* ------------------------------------------------------------------ __main__

RealityWord == <<"r", "e", "a", "l", "i", "t", "y">>
SpxParam == <<"s", "p", "x", "=">>

\* line 441: 'reality' in uri.lower() and 'spx=' not in uri
RealityWithoutSpx(uri) ==
    Contains(Lower(uri), RealityWord) /\ ~Contains(uri, SpxParam)

\* lines 438-453: valid_uris after the parsing loop
ParsedUris(uris) ==
    SelectSeq(uris, LAMBDA uri : ~RealityWithoutSpx(uri) /\ parse_uri(uri) = "config")

\* a record of the list test_uris returns: a dict whose status is 'success',
\* a dict with another status or none, or a value that is no dict
ResultKinds == {"success", "failed", "malformed"}

\* line 477: the URIs whose result has the status 'success'
RECURSIVE SuccessfulUris(_, _)
SuccessfulUris(uris, res) ==
    IF uris = <<>> \/ res = <<>> THEN <<>>
    ELSE (IF Head(res) = "success" THEN <<Head(uris)>> ELSE <<>>)
         \o SuccessfulUris(Tail(uris), Tail(res))

\* Each specification below exercises one part of the program; the variables
\* of the other parts rest at these values.
Idle(part) ==
    /\ IF part = "clean" THEN TRUE ELSE clean_in = <<>> /\ clean_out = <<>>
    /\ IF part = "match" THEN TRUE ELSE text = <<>> /\ matches = <<>>
    /\ IF part = "vmess" THEN TRUE ELSE vm_uri = <<>> /\ vm_res = Returned(<<>>)
    /\ IF part \in {"page", "main"} THEN TRUE
       ELSE parser_none = {} /\ parser_raise = {}
    /\ IF part = "page" THEN TRUE
       ELSE /\ page = <<>> /\ fetch_ok = FALSE
            /\ surface_found = <<>> /\ page_out = <<>>
    /\ IF part = "main" THEN TRUE
       ELSE /\ page_results = <<>> /\ all_server_links = <<>>
            /\ server_results = <<>> /\ configs = <<>> /\ valid_uris = <<>>
            /\ output_file = NoFile /\ exit_status = 0 /\ failure = "none"

\* ------------------------------------------------ specification: the cleaner

\* the longest argument of clean_uri the model enumerates
MaxCleanLen == 4

\* the characters the arguments are built from: a letter, inner whitespace,
\* parentheses, a quote and trailing punctuation
CleanAlphabet == {"a", " ", "(", ")", "\"", "."}

CleanInputs == UNION {[1..n -> CleanAlphabet] : n \in 0..MaxCleanLen}

InitClean ==
    /\ clean_in \in CleanInputs
    /\ clean_out = <<>>
    /\ pc = "clean"
    /\ Idle("clean")

\* one call of clean_uri, on the argument first and on its own result after
ApplyClean ==
    /\ pc = "clean"
    /\ Len(clean_out) < 2
    /\ clean_out' = Append(clean_out,
                           clean_uri(IF clean_out = <<>> THEN clean_in
                                     ELSE clean_out[Len(clean_out)]))
    /\ UNCHANGED <<pc, clean_in, matchVars, vmessVars, parserVars, pageVars, mainVars>>

NextClean == ApplyClean

SpecClean == InitClean /\ [][NextClean]_vars

\* C2: clean_uri is idempotent: clean_uri(clean_uri(x)) = clean_uri(x) for
\* every string x, inner whitespace, nested quotes and parentheses and
\* trailing punctuation included.
C2_CleanIdempotent ==
    Len(clean_out) = 2 => clean_out[2] = clean_out[1]

\* ------------------------------------------------ specification: the matcher

\* the runs of label characters put after a `#` of the scanned text: short
\* ones, up to MaxShortFill, and ones around the cap of the fragment group,
\* up to MaxOverFill characters beyond it
MaxShortFill == 3
MaxOverFill == 2
FillLengths == (0..MaxShortFill) \cup ((FRAG_MAX - 1)..(FRAG_MAX + MaxOverFill))

\* n copies of the character c
Fill(c, n) == [k \in 1..n |-> c]

MatchHeads == { <<>>, <<"x", " ">>, <<"(">> }
MatchSchemes == { <<"s", "s", ":", "/", "/">>, <<"S", "s", ":", "/", "/">>,
                  <<"s", "s", ":", "/">> }
MatchBodies == { <<"a">>, <<"a", "#">>, <<"a", "#", "b", " ">>, <<"a", " ", "#">>, <<>> }
MatchTails == { <<>>, <<" ", "z">>, <<"\n", "q">>, <<"\r", "#", "t">>, <<"#", "t">> }

InitMatch ==
    /\ \E h \in MatchHeads, sc \in MatchSchemes, b \in MatchBodies,
          n \in FillLengths, tl \in MatchTails :
          text = h \o sc \o b \o Fill("y", n) \o tl
    /\ matches = <<>>
    /\ pc = "scan"
    /\ Idle("match")

\* URI_RE.findall(text)
Scan ==
    /\ pc = "scan"
    /\ matches' = URI_RE_findall(text)
    /\ pc' = "scanned"
    /\ UNCHANGED <<text, cleanVars, vmessVars, parserVars, pageVars, mainVars>>

NextMatch == Scan

SpecMatch == InitMatch /\ [][NextMatch]_vars

\* the text of a span after its first `#`, <<>> when it has none
FragmentOf(span) == Drop(span, RunEnd(span, 1, {"#"}) + 1)

\* C6: every span matched by URI_RE has a fragment portion (the text after
\* the first `#` of the span) that holds no newline or carriage return and is
\* at most 200 characters long.
C6_FragmentBounded ==
    pc = "scanned" =>
        \A k \in 1..Len(matches) :
            LET frag == FragmentOf(matches[k])
            IN /\ \A j \in 1..Len(frag) : frag[j] \notin {"\n", "\r"}
               /\ Len(frag) <= 200

\* -------------------------------------------- specification: the transformer

VmessHeads == { <<"v", "m", "e", "s", "s", ":", "/", "/">>,
                <<"V", "M", "e", "s", "s", ":", "/", "/">>,
                <<"v", "l", "e", "s", "s", ":", "/", "/">>,
                <<"v", "m", "e", "s", "s", ":">> }
VmessTails == { <<>>, <<"#", "x">> }

\* a payload as pages carry it: padded, or with its `=` padding left off
PayloadForms == CataloguePayloads \cup InvalidPayloads
                \cup {RStrip(p, {"="}) : p \in CataloguePayloads}

InitVmess ==
    /\ \E h \in VmessHeads, p \in PayloadForms, tl \in VmessTails :
          vm_uri = h \o p \o tl
    /\ vm_res = Returned(<<>>)
    /\ pc = "call"
    /\ Idle("vmess")

\* one call of transform_vmess
ApplyTransform ==
    /\ pc = "call"
    /\ vm_res' = transform_vmess(vm_uri)
    /\ pc' = "returned"
    /\ UNCHANGED <<vm_uri, cleanVars, matchVars, parserVars, pageVars, mainVars>>

NextVmess == ApplyTransform

SpecVmess == InitVmess /\ [][NextVmess]_vars

\* the argument is a vmess URI (scheme compared without case)
IsVmessUri(uri) == Contains(uri, SchemeSep) /\ Lower(PrefixOf(uri)) = VmessPrefix

\* the payload of the argument decodes to a JSON object
DecodesToObject(uri) ==
    /\ IsVmessUri(uri)
    /\ B64JsonLoads(PayloadOf(uri)).ok
    /\ B64JsonLoads(PayloadOf(uri)).value.t = "obj"

\* the object the argument carries, and the one the result carries
ObjectIn(uri) == B64JsonLoads(PayloadOf(uri)).value.f

\* the label the claim expects: the first pair of regional indicators, else
\* the whole label without its surrounding whitespace
ExpectedLabel(label) ==
    IF \E i \in 1..(Len(label) - 1) :
           label[i] \in RegionalIndicators /\ label[i + 1] \in RegionalIndicators
    THEN LET i == CHOOSE i \in 1..(Len(label) - 1) :
                 /\ label[i] \in RegionalIndicators /\ label[i + 1] \in RegionalIndicators
                 /\ \A j \in 1..(i - 1) :
                      ~(label[j] \in RegionalIndicators /\ label[j + 1] \in RegionalIndicators)
         IN <<label[i], label[i + 1]>>
    ELSE Strip(label, Whitespace)

\* the argument carries an object whose `ps` is text (an absent `ps` reads as '')
HasTextPs(uri) ==
    /\ DecodesToObject(uri)
    /\ "ps" \in DOMAIN ObjectIn(uri) => ObjectIn(uri)["ps"].t = "str"

LabelIn(uri) == IF "ps" \in DOMAIN ObjectIn(uri) THEN ObjectIn(uri)["ps"].s ELSE <<>>

\* C4: for a vmess URI whose payload decodes to a JSON object, transform_vmess
\* rewrites `ps` to the first pair of consecutive regional-indicator symbols
\* if the label holds one, and otherwise to the whole label trimmed of
\* surrounding whitespace, not truncated; every other key keeps its value.
C4_PsRewritten ==
    (pc = "returned" /\ HasTextPs(vm_uri)) =>
        /\ vm_res.exc = "none"
        /\ DecodesToObject(vm_res.val)
        /\ DOMAIN ObjectIn(vm_res.val) = DOMAIN ObjectIn(vm_uri) \cup {"ps"}
        /\ ObjectIn(vm_res.val)["ps"] = JStr(ExpectedLabel(LabelIn(vm_uri)))
        /\ \A k \in DOMAIN ObjectIn(vm_uri) \ {"ps"} :
               ObjectIn(vm_res.val)[k] = ObjectIn(vm_uri)[k]

\* the cases in which the claim says the argument comes back as it is
MustComeBackUnchanged(uri) ==
    \/ ~IsVmessUri(uri)
    \/ ~B64JsonLoads(PayloadOf(uri)).ok
    \/ B64JsonLoads(PayloadOf(uri)).value.t # "obj"
    \/ "ps" \in DOMAIN ObjectIn(uri) /\ ObjectIn(uri)["ps"].t # "str"

\* C5: transform_vmess is total and non-destructive: it returns without
\* raising for every argument, and returns the argument itself when the
\* scheme is not vmess and when the payload is invalid base64, invalid JSON,
\* a JSON value that is no object, or an object whose `ps` is no text.
C5_TotalNonDestructive ==
    pc = "returned" =>
        /\ vm_res.exc = "none"
        /\ MustComeBackUnchanged(vm_uri) => vm_res.val = vm_uri

\* ------------------------------------------- specification: one fetched page

\* the most elements a page holds
MaxElements == 2

\* the most URIs of a page parse_uri fails on (by no result, or by raising)
MaxParserFails == 1

ElementCatalogue ==
    { [tag |-> <<"a">>, href |-> <<"s", "s", ":", "/", "/", "a", "#", "a", "b">>,
       text |-> <<"#", "c", "d">>],
      [tag |-> <<"a">>, href |-> <<"s", "s", ":", "/", "/", "a", "#", "a", "b">>,
       text |-> <<"#", "c">>],
      [tag |-> <<"a">>, href |-> <<"s", "s", ":", "/", "/", "a", "#", "a", "b">>,
       text |-> <<"s", "e", "e", " ", "#", "c", "d", "e", ".">>],
      [tag |-> <<"a">>, href |-> <<"s", "s", ":", "/", "/", "a">>,
       text |-> <<"x", " ", "#", "l", "\r", "\n", "m">>],
      [tag |-> <<"a">>, href |-> <<"/", "s", "/", "1">>,
       text |-> <<"v", "l", "e", "s", "s", ":", "/", "/", "u", "@", "h", ":", "1", "#", "l", "a", "b", "e", "l">>],
      [tag |-> <<"a">>, href |-> <<"v", "l", "e", "s", "s", ":", "/", "/", "o", "n", "l", "y", "h", "o", "s", "t">>,
       text |-> <<"x">>],
      [tag |-> <<"a">>, href |-> <<"v", "l", "e", "s", "s", ":", "/", "/", "u", "s", "e", "r", "@", "h", "o", "s", "t">>,
       text |-> <<"x">>],
      [tag |-> <<"a">>, href |-> <<"V", "L", "E", "S", "S", ":", "/", "/", "h", "o", "s", "t", ":", "4", "4", "3">>,
       text |-> <<"x">>],
      [tag |-> <<"a">>, href |-> <<"v", "m", "e", "s", "s", ":", "/", "/", "e", "y", "J", "w", "c", "y", "I", "6", "I", "k", "R", "F", "I", "n", "0", "=">>,
       text |-> <<"D", "E">>],
      [tag |-> <<"a">>, href |-> <<"v", "m", "e", "s", "s", ":", "/", "/", "W", "z", "F", "d">>,
       text |-> <<"#", "b", "a", "d">>],
      [tag |-> <<"p">>, href |-> <<>>,
       text |-> <<"s", "e", "e", " ", "(", "s", "s", ":", "/", "/", "a", "#", "a", "b", ")", ".">>],
      [tag |-> <<"l", "i">>, href |-> <<>>,
       text |-> <<"t", "r", "o", "j", "a", "n", ":", "/", "/", "p", "@", "h", ":", "1", "?", "s", "e", "c", "u", "r", "i", "t", "y", "=", "r", "e", "a", "l", "i", "t", "y">>],
      [tag |-> <<"p">>, href |-> <<>>,
       text |-> <<" ", "p", "l", "a", "i", "n", " ">>] }

Pages == UNION {[1..n -> ElementCatalogue] : n \in 1..MaxElements}

\* the URIs of a page that reach parse_uri
UrisOf(fl) == IF fl.exc # "none" THEN {} ELSE Range(fl.val)
ParserArguments(pg) == UrisOf(FoundList(SurfaceFound(NormalizePage(pg))))

AtMost(S, n) == {T \in SUBSET S : Cardinality(T) <= n}

InitPage ==
    /\ page \in Pages
    /\ \E bad \in AtMost(ParserArguments(page), MaxParserFails), raises \in BOOLEAN :
          /\ parser_none = IF raises THEN {} ELSE bad
          /\ parser_raise = IF raises THEN bad ELSE {}
    /\ fetch_ok = FALSE
    /\ surface_found = <<>>
    /\ page_out = <<>>
    /\ pc = "fetch"
    /\ Idle("page")

\* extract_from_server with what its scan found passed in: surface_found
\* records what each scanned item appended to the local list `found`
ReturnFromServer(fetched, parts) ==
    /\ fetch_ok' = fetched
    /\ surface_found' = IF fetched THEN parts ELSE <<>>
    /\ page_out' = ServerResult(fetched, Validated(FoundList(parts)))

\* one call of extract_from_server
ExtractFromServer ==
    /\ pc = "fetch"
    /\ \E fetched \in BOOLEAN :
          ReturnFromServer(fetched, SurfaceFound(NormalizePage(page)))
    /\ pc' = "extracted"
    /\ UNCHANGED <<page, parserVars, cleanVars, matchVars, vmessVars, mainVars>>

NextPage == ExtractFromServer

SpecPage == InitPage /\ [][NextPage]_vars

\* the part of a URI after its scheme and ://
BodyOf(uri) == Drop(uri, Find(uri, SchemeSep) + 3)

\* C3: a candidate whose scheme is vless is kept only if its body (the part
\* after vless://) holds both an `@` and a `:`; a vless candidate whose body
\* lacks either never appears in the returned list, whatever parse_uri answers.
C3_VlessNeedsAtAndColon ==
    pc = "extracted" =>
        \A k \in 1..Len(page_out) :
            StartsWith(Lower(page_out[k]), VlessScheme) =>
                /\ Contains(BodyOf(page_out[k]), <<"@">>)
                /\ Contains(BodyOf(page_out[k]), <<":">>)

\* the fragment of a URI (after its first `#`) and the URI without it
FragOf(uri) == Drop(uri, Find(uri, <<"#">>) + 1)
BaseOf(uri) == SubSeq(uri, 1, Find(uri, <<"#">>) - 1)

\* what the anchors of the page appended to `found`, anchor by anchor
AnchorFound == SubSeq(surface_found, 2, 1 + Len(Anchors(page)))

\* C10: when an anchor's href matches a URI that already has a #fragment and
\* the anchor's text supplies a #label, the href fragment is replaced by the
\* text label only if the label is strictly longer than the href fragment,
\* both measured without their `#`; with equal lengths the href's is kept.
C10_LongerLabelWins ==
    (pc = "extracted" /\ fetch_ok) =>
        \A k \in 1..Len(AnchorFound) :
            LET item == AnchorItem(Anchors(NormalizePage(page))[k])
                spans == URI_RE_findall(item.href)
                uri == Candidate(spans[1]).val
                label == LabelOf(item.text)
            IN (/\ spans # <<>>
                /\ AnchorFound[k].exc = "none"
                /\ Contains(uri, <<"#">>)
                /\ Contains(item.text, <<"#">>)) =>
                   AnchorFound[k].val =
                       << IF Len(label) - 1 > Len(FragOf(uri))
                          THEN BaseOf(uri) \o label
                          ELSE uri >>

\* --------------------------------------------- specification: a run of main

\* the number of index pages scrape is asked for (its parameter `pages`)
MaxIndexPages == 2

\* The site the run scrapes: its index pages, and the page behind every
\* server link.

Link1 == <<"/", "s", "e", "r", "v", "e", "r", "s", "/", "1">>

Link2 == <<"/", "s", "e", "r", "v", "e", "r", "s", "/", "2", "/">>

Link3 == <<"/", "s", "e", "r", "v", "e", "r", "s", "/", "3">>

IndexPage1 ==
    << [tag |-> <<"a">>, href |-> <<"/", "s", "e", "r", "v", "e", "r", "s", "/", "1">>,
          text |-> <<"o", "n", "e">>],
       [tag |-> <<"a">>, href |-> <<"/", "a", "b", "o", "u", "t">>,
          text |-> <<"a", "b", "o", "u", "t">>],
       [tag |-> <<"a">>, href |-> <<"/", "s", "e", "r", "v", "e", "r", "s", "/", "2", "/">>,
          text |-> <<"t", "w", "o">>] >>

IndexPage2 ==
    << [tag |-> <<"a">>, href |-> <<"/", "s", "e", "r", "v", "e", "r", "s", "/", "2", "/">>,
          text |-> <<"t", "w", "o">>],
       [tag |-> <<"a">>, href |-> <<"/", "s", "e", "r", "v", "e", "r", "s", "/", "3">>,
          text |-> <<"t", "h", "r", "e", "e">>] >>

IndexPage3 ==
    << [tag |-> <<"a">>, href |-> <<"/", "s", "e", "r", "v", "e", "r", "s", "/", "3">>,
          text |-> <<"t", "h", "r", "e", "e">>],
       [tag |-> <<"a">>, href |-> <<"/", "s", "e", "r", "v", "e", "r", "s", "/", "x">>,
          text |-> <<"x">>],
       [tag |-> <<"a">>, href |-> <<"/", "s", "e", "r", "v", "e", "r", "s", "/", "1">>,
          text |-> <<"o", "n", "e">>] >>

\* the index page /?page=k
IndexPageOf(k) ==
    IF k = 1 THEN IndexPage1 ELSE IF k = 2 THEN IndexPage2 ELSE IndexPage3

ServerPage1 ==
    << [tag |-> <<"p">>, href |-> <<>>,
          text |-> <<"s", "s", ":", "/", "/", "a", "#", "a", "b", " ", "t", "r", "o", "j", "a", "n", ":", "/", "/", "p", "@", "h", ":", "1", "?", "s", "e", "c", "u", "r", "i", "t", "y", "=", "r", "e", "a", "l", "i", "t", "y">>] >>

ServerPage2 ==
    << [tag |-> <<"l", "i">>, href |-> <<>>,
          text |-> <<"t", "r", "o", "j", "a", "n", ":", "/", "/", "p", "@", "h", ":", "1", "?", "s", "p", "x", "=", "1", "#", "R", "e", "a", "l", "i", "t", "y", " ", "(", "s", "s", ":", "/", "/", "a", "#", "a", "b", ")">>] >>

ServerPage3 ==
    << [tag |-> <<"a">>, href |-> <<"s", "s", ":", "/", "/", "b">>,
          text |-> <<"x">>],
       [tag |-> <<"p">>, href |-> <<>>,
          text |-> <<"s", "s", ":", "/", "/", "a", "#", "a", "b">>] >>

ServerPage4 ==
    << [tag |-> <<"a">>, href |-> <<"v", "m", "e", "s", "s", ":", "/", "/", "e", "y", "J", "w", "c", "y", "I", "6", "I", "k", "R", "F", "I", "n", "0", "=">>,
          text |-> <<"D", "E">>],
       [tag |-> <<"p">>, href |-> <<>>,
          text |-> <<"s", "s", ":", "/", "/", "a", "#", "a", "b">>] >>

ServerPage5 ==
    << [tag |-> <<"a">>, href |-> <<"v", "m", "e", "s", "s", ":", "/", "/", "W", "z", "F", "d">>,
          text |-> <<"b", "a", "d">>],
       [tag |-> <<"p">>, href |-> <<>>,
          text |-> <<"s", "s", ":", "/", "/", "b">>] >>

\* the pages base_url + rel may serve
SitePages(rel) ==
    IF rel = Link1 THEN {ServerPage1, ServerPage4}
    ELSE IF rel = Link2 THEN {ServerPage2, ServerPage5}
    ELSE {ServerPage3, ServerPage1}

\* what parse_uri does in a run: the URIs it gives no result for and the ones
\* it raises on
MainParsers ==
    { [none |-> {}, raise |-> {}],
      [none |-> {<<"s", "s", ":", "/", "/", "a", "#", "a", "b">>}, raise |-> {}],
      [none |-> {}, raise |-> {<<"s", "s", ":", "/", "/", "b">>}] }

InitMain ==
    /\ \E p \in MainParsers : parser_none = p.none /\ parser_raise = p.raise
    /\ page_results = Submitted(MaxIndexPages)
    /\ all_server_links = <<>>
    /\ server_results = <<>>
    /\ configs = <<>>
    /\ valid_uris = <<>>
    /\ output_file = NoFile
    /\ exit_status = 0
    /\ failure = "none"
    /\ pc = "index"
    /\ Idle("main")

\* one call of fetch_page returns in the pool of lines 196-197
FetchPage ==
    /\ pc = "index"
    /\ \E k \in 1..Len(page_results), fetched \in BOOLEAN :
          /\ ~page_results[k].done
          /\ HasWorker(page_results, k, INDEX_WORKERS)
          /\ page_results' = Complete(page_results, k, fetch_page(fetched, IndexPageOf(k)))
    /\ UNCHANGED <<pc, all_server_links, server_results, configs, valid_uris,
                   output_file, exit_status, failure,
                   cleanVars, matchVars, vmessVars, parserVars, pageVars>>

\* lines 199-212: the server links of the index pages, and their submission
SubmitServers(links) ==
    /\ all_server_links' = links
    /\ server_results' = Submitted(Len(links))

CollectLinks ==
    /\ pc = "index"
    /\ AllDone(page_results)
    /\ SubmitServers(AllServerLinks(MapResults(page_results)))
    /\ pc' = "servers"
    /\ UNCHANGED <<page_results, configs, valid_uris, output_file, exit_status, failure,
                   cleanVars, matchVars, vmessVars, parserVars, pageVars>>

\* one call of fetch_server returns in the pool of lines 211-212
FetchServer ==
    /\ pc = "servers"
    /\ \E i \in 1..Len(server_results), fetched \in BOOLEAN :
          /\ ~server_results[i].done
          /\ HasWorker(server_results, i, SERVER_WORKERS)
          /\ \E pg \in SitePages(all_server_links[i]) :
                 server_results' =
                     Complete(server_results, i, extract_from_server(fetched, pg))
    /\ UNCHANGED <<pc, page_results, all_server_links, configs, valid_uris,
                   output_file, exit_status, failure,
                   cleanVars, matchVars, vmessVars, parserVars, pageVars>>

\* lines 214-222 and 414: configs = scrape()
ReturnResults ==
    /\ pc = "servers"
    /\ AllDone(server_results)
    /\ configs' = ScrapeResults(server_results)
    /\ pc' = "main"
    /\ UNCHANGED <<page_results, all_server_links, server_results, valid_uris,
                   output_file, exit_status, failure,
                   cleanVars, matchVars, vmessVars, parserVars, pageVars>>

\* exit(status), after save_configs(saved) if the file is written
Exit(status, file, why) ==
    /\ pc' = "exit"
    /\ exit_status' = status
    /\ output_file' = file
    /\ failure' = why

\* lines 415-417
ExitNoConfigs ==
    /\ pc = "main"
    /\ configs = <<>>
    /\ Exit(0, output_file, "none")
    /\ UNCHANGED <<page_results, all_server_links, server_results, configs, valid_uris,
                   cleanVars, matchVars, vmessVars, parserVars, pageVars>>

\* lines 421-427: BinaryDownloader(project_root).ensure_all()
EnsureAll ==
    /\ pc = "main"
    /\ configs # <<>>
    /\ \E raised \in BOOLEAN :
          IF raised THEN Exit(1, output_file, "ensure_all")
          ELSE pc' = "ensure_tester" /\ UNCHANGED <<exit_status, output_file, failure>>
    /\ UNCHANGED <<page_results, all_server_links, server_results, configs, valid_uris,
                   cleanVars, matchVars, vmessVars, parserVars, pageVars>>

\* lines 430-435: ensure_tester_executable_linux
EnsureTester ==
    /\ pc = "ensure_tester"
    /\ \E raised \in BOOLEAN :
          IF raised THEN Exit(0, save_configs(configs), "ensure_tester")
          ELSE pc' = "parse" /\ UNCHANGED <<exit_status, output_file, failure>>
    /\ UNCHANGED <<page_results, all_server_links, server_results, configs, valid_uris,
                   cleanVars, matchVars, vmessVars, parserVars, pageVars>>

\* lines 437-456 with the list the loop leaves in valid_uris
ParsedInto(uris) ==
    /\ valid_uris' = uris
    /\ IF uris = <<>> THEN Exit(0, output_file, "none")
       ELSE pc' = "construct" /\ UNCHANGED <<exit_status, output_file, failure>>

\* lines 437-456: the parsing loop
ParseUris ==
    /\ pc = "parse"
    /\ ParsedInto(ParsedUris(configs))
    /\ UNCHANGED <<page_results, all_server_links, server_results, configs,
                   cleanVars, matchVars, vmessVars, parserVars, pageVars>>

\* what the constructor of ConnectionTester does
ConstructorOutcomes == {"returns", "FileNotFoundError", "Exception"}

\* lines 461-469: only FileNotFoundError is caught
ConstructTester ==
    /\ pc = "construct"
    /\ \E outcome \in ConstructorOutcomes :
          IF outcome = "returns"
          THEN pc' = "test" /\ UNCHANGED <<exit_status, output_file, failure>>
          ELSE IF outcome = "FileNotFoundError"
          THEN Exit(0, save_configs(valid_uris), "ConnectionTester")
          ELSE Exit(1, output_file, "ConnectionTester")
    /\ UNCHANGED <<page_results, all_server_links, server_results, configs, valid_uris,
                   cleanVars, matchVars, vmessVars, parserVars, pageVars>>

\* lines 470-479: test_uris raises, or returns a result for every configuration;
\* result.get of a result that is no dict raises outside every try
TestUris ==
    /\ pc = "test"
    /\ \E raised \in BOOLEAN, res \in [1..Len(valid_uris) -> ResultKinds] :
          IF raised
          THEN Exit(0, save_configs(valid_uris), "test_uris")
          ELSE IF \E k \in 1..Len(res) : res[k] = "malformed"
          THEN Exit(1, output_file, "result")
          ELSE Exit(0, save_configs(SuccessfulUris(valid_uris, res)), "none")
    /\ UNCHANGED <<page_results, all_server_links, server_results, configs, valid_uris,
                   cleanVars, matchVars, vmessVars, parserVars, pageVars>>

NextMain ==
    \/ FetchPage
    \/ CollectLinks
    \/ FetchServer
    \/ ReturnResults
    \/ ExitNoConfigs
    \/ EnsureAll
    \/ EnsureTester
    \/ ParseUris
    \/ ConstructTester
    \/ TestUris

SpecMain == InitMain /\ [][NextMain]_vars

\* the lines of the output file
RECURSIVE LinesOf(_)
LinesOf(t) ==
    IF t = <<>> THEN <<>>
    ELSE <<SubSeq(t, 1, RunEnd(t, 1, {"\n"}) - 1)>> \o LinesOf(Drop(t, RunEnd(t, 1, {"\n"}) + 1))

Persisted == LinesOf(output_file.text)

\* C1: on every path of the entry point that calls save_configs, no URI
\* written to the output file holds `reality` in its lower-case form while
\* lacking the substring `spx=`.
C1_NoRealityWithoutSpx ==
    output_file.exists =>
        \A k \in 1..Len(Persisted) :
            ~(Contains(Lower(Persisted[k]), RealityWord) /\ ~Contains(Persisted[k], SpxParam))

\* C7: every run ends with exit status 0 unless downloader.ensure_all fails;
\* a failure of ensure_tester_executable_linux, of the ConnectionTester
\* constructor (of any type) or of test_uris (malformed results included) is
\* caught, the best-effort list is persisted and the process exits 0.
C7_ExitZeroUnlessEnsureAll ==
    pc = "exit" =>
        /\ failure # "ensure_all" => exit_status = 0
        /\ failure \in {"ensure_tester", "ConnectionTester", "test_uris", "result"} =>
               output_file.exists

\* scrape has returned
ScrapeReturned == pc \notin {"index", "servers"}

\* the result list of every server page, in the order of all_server_links
PageLists == [i \in 1..Len(server_results) |-> server_results[i].val]

NoDuplicates(s) == \A a, b \in 1..Len(s) : a # b => s[a] # s[b]

\* the index of the first occurrence of x in s
FirstIndex(s, x) == CHOOSE k \in 1..Len(s) : s[k] = x /\ \A j \in 1..(k - 1) : s[j] # x

\* s is t with some elements left out
RECURSIVE IsSubsequence(_, _)
IsSubsequence(s, t) ==
    IF s = <<>> THEN TRUE
    ELSE IF t = <<>> THEN FALSE
    ELSE IF Head(s) = Head(t) THEN IsSubsequence(Tail(s), Tail(t))
    ELSE IsSubsequence(s, Tail(t))

\* C8: whatever the page lists and the interleaving of the fetches (failed
\* fetches, which give an empty list, included), the sequence scrape returns
\* holds no string twice, holds exactly the strings of the page lists, and
\* orders them by their first occurrence in the fold; the list persisted is a
\* duplicate-free subsequence of it.
C8_UniqueExactOrdered ==
    ScrapeReturned =>
        /\ NoDuplicates(configs)
        /\ Range(configs) = UNION {Range(PageLists[i]) : i \in 1..Len(PageLists)}
        /\ \A a, b \in 1..Len(configs) :
               a < b => FirstIndex(Flatten(PageLists), configs[a])
                            < FirstIndex(Flatten(PageLists), configs[b])
        /\ output_file.exists =>
               NoDuplicates(Persisted) /\ IsSubsequence(Persisted, configs)

\* a run in which a fetch failed, two pages listed the same URI, the pages
\* returned in another order than they were submitted, and the list persisted
\* is shorter than the one scraped
C8_Witness ==
    /\ pc = "exit"
    /\ output_file.exists
    /\ Persisted # <<>>
    /\ Len(Persisted) < Len(configs)
    /\ Len(Flatten(PageLists)) > Len(configs)
    /\ \E i \in 1..Len(PageLists) : PageLists[i] = <<>>
    /\ \E i, j \in 1..Len(server_results) :
           i < j /\ server_results[i].at > server_results[j].at

\* the first page listing uri, by its place in all_server_links and by its
\* rank in the order of completion
LinkRank(uri) == Min({i \in 1..Len(PageLists) : uri \in Range(PageLists[i])})
DoneRank(uri) ==
    Min({server_results[i].at : i \in {j \in 1..Len(PageLists) : uri \in Range(PageLists[j])}})

\* C9 as stated: the page lists are folded in the order the fetches complete:
\* if page A finishes before page B, A's new URIs precede B's new URIs.
C9_CompletionOrder ==
    ScrapeReturned =>
        \A a, b \in 1..Len(configs) :
            a < b => DoneRank(configs[a]) <= DoneRank(configs[b])

\* C9 amended: the page lists are folded in the order of all_server_links,
\* the order the fetches were submitted in, whatever order they complete in:
\* if page A precedes page B there, A's new URIs precede B's new URIs.
C9_SubmissionOrder ==
    ScrapeReturned =>
        \A a, b \in 1..Len(configs) :
            a < b => LinkRank(configs[a]) <= LinkRank(configs[b])

\* a run whose result would differ under a fold in completion order
C9_Witness ==
    /\ ScrapeReturned
    /\ \E a, b \in 1..Len(configs) :
           a < b /\ DoneRank(configs[a]) > DoneRank(configs[b])

====
